---- MODULE Spec2Model ----
(***************************************************************************)
(* The Rosetta translation registry of src/rosetta.py: the class-level     *)
(* state (system_type, _dictionary, _translated) and its three class       *)
(* methods load_from_file, get_canonical and get_source, called one after  *)
(* the other by a single caller (Spec) or by several threads whose calls   *)
(* interleave line by line, the class taking no lock (ThreadedSpec).       *)
(*                                                                         *)
(* A Python dict is a function; a dict whose iteration order matters (the  *)
(* canonical -> sources table of one dialect) is a sequence of             *)
(* [canonical, sources] records in insertion order, with distinct keys.    *)
(***************************************************************************)
EXTENDS Naturals, Sequences, FiniteSets, TLC

VARIABLES
    system_type,   \* Rosetta.system_type
    dictionary,    \* Rosetta._dictionary : dialect -> <<[canonical, sources]>>
    translated,    \* Rosetta._translated : dialect -> (canonical -> source)
    call,          \* the call made last, with its arguments
    outcome,       \* how that call ended: [kind, val]
    fwd,           \* history: (dialect, canonical) -> source of the latest
                   \* get_canonical that returned canonical under dialect
                   \* since the last load that completed
    loads,         \* history: number of load_from_file calls made
    loaded,        \* history: number of load_from_file calls that completed
    pc,            \* per thread: the line of the method it is to run next
    frame          \* per thread: the arguments and locals of its call

vars == <<system_type, dictionary, translated, call, outcome, fwd, loads, loaded,
          pc, frame>>

\* Number of load_from_file calls in a behaviour.
MaxLoads == 3

\* Number of load_from_file calls in a behaviour of the threads.
MaxThreadedLoads == 2

\* Python's None.
None == "None"

\* The empty dict {}.
EmptyDict == [k \in {} |-> k]

\* The threads that call the class methods of the one shared class.
Threads == {"t1", "t2"}

\* The frame of a thread that is in no call.
IdleFrame == [op |-> "none"]

\* One canonical -> sources item of a dialect table.
Item(c, s) == [canonical |-> c, sources |-> s]

-----------------------------------------------------------------------------
(* The environment: what exists on disk and what toml.load returns.        *)

SystemTypes == {"sysA", "sysB", "sysC"}

Dialects == {"en", "fr"}

Canonicals == {"go", "stop"}

SourceTerms == {"go", "move", "halt", "aller", "xyz"}

FilePaths == {"dictionaries.toml", "missing.toml", "broken.toml"}

\* exists(dictionary_filepath), directly or under the package directory.
FileExists(path) == path # "missing.toml"

\* Whether toml.load parses the file.
FileParses(path) == path = "dictionaries.toml"

\* toml.load("dictionaries.toml"): short_name -> dialect -> canonical -> sources.
\* sysA lists "move" under two canonical terms; sysB has another default for
\* "go", an empty synonym list and no "fr" dialect; sysC has no entry.
AllDictionaries ==
    [s \in {"sysA", "sysB"} |->
        IF s = "sysA"
        THEN [d \in {"en", "fr"} |->
                IF d = "en"
                THEN << Item("go", <<"go", "move">>),
                        Item("stop", <<"halt", "move">>) >>
                ELSE << Item("go", <<"aller">>) >>]
        ELSE [d \in {"en"} |->
                << Item("stop", <<>>),
                   Item("go", <<"move", "go">>) >>]]

-----------------------------------------------------------------------------
(* Python dict and list primitives.                                        *)

\* The keys of a dialect table.
Keys(dialect_dict) == {dialect_dict[i].canonical : i \in DOMAIN dialect_dict}

\* dialect_dict[canonical]
Sources(dialect_dict, canonical) ==
    dialect_dict[CHOOSE i \in DOMAIN dialect_dict :
                    dialect_dict[i].canonical = canonical].sources

\* source in sources
Contains(sources, source) == \E j \in DOMAIN sources : sources[j] = source

\* m[k] = v
SetItem(m, k, v) == [x \in DOMAIN m \cup {k} |-> IF x = k THEN v ELSE m[x]]

\* The dialect's table created anew on every call, the membership test left out.
EnsureTable_reset(tr, dialect) == SetItem(tr, dialect, EmptyDict)

\* if dialect not in _translated: _translated[dialect] = {}
EnsureTable(tr, dialect) ==
    IF dialect \in DOMAIN tr THEN tr ELSE SetItem(tr, dialect, EmptyDict)

\* The translation written into the table of every dialect.
StoreTranslation_all_dialects(tr, dialect, canonical, source) ==
    [d \in DOMAIN tr |-> SetItem(tr[d], canonical, source)]

\* Key and value exchanged: _translated[dialect][source] = canonical.
StoreTranslation_swapped(tr, dialect, canonical, source) ==
    [tr EXCEPT ![dialect] = SetItem(@, source, canonical)]

\* The canonical term stored in place of the source term.
StoreTranslation_canonical(tr, dialect, canonical, source) ==
    [tr EXCEPT ![dialect] = SetItem(@, canonical, canonical)]

\* _translated[dialect][canonical] = source, the dialect's table being there
StoreTranslation(tr, dialect, canonical, source) ==
    [tr EXCEPT ![dialect] = SetItem(@, canonical, source)]

\* for canonical, sources in dialect_dict.items(): if source in sources: ...
\* The index of the item the loop stops at, from item i on; 0 when it runs out.
RECURSIVE ScanFrom(_, _, _)
ScanFrom(dialect_dict, source, i) ==
    IF i > Len(dialect_dict) THEN 0
    ELSE IF Contains(dialect_dict[i].sources, source) THEN i
    ELSE ScanFrom(dialect_dict, source, i + 1)

\* The loop keeping the last item that lists source instead of stopping at the first.
RECURSIVE ScanBack(_, _, _)
ScanBack(dialect_dict, source, i) ==
    IF i = 0 THEN 0
    ELSE IF Contains(dialect_dict[i].sources, source) THEN i
    ELSE ScanBack(dialect_dict, source, i - 1)

LastMatch(dialect_dict, source) == ScanBack(dialect_dict, source, Len(dialect_dict))

FirstMatch(dialect_dict, source) == ScanFrom(dialect_dict, source, 1)

\* How a call ends: the state it leaves and what the caller sees.
Returns(tr, v) == [translated |-> tr, kind |-> "return", val |-> v]

Raises(tr, e) == [translated |-> tr, kind |-> e, val |-> None]

-----------------------------------------------------------------------------
(* The three class methods, as functions of the state they read.           *)

\* get_canonical without the early return for None.
get_canonical_no_none_check(dict, tr, source, dialect) ==
    IF dialect \notin DOMAIN dict THEN Raises(tr, "KeyError")
    ELSE LET dialect_dict == dict[dialect]
             i == FirstMatch(dialect_dict, source)
         IN  IF i = 0 THEN Raises(tr, "NoTranslationError")
             ELSE Returns(StoreTranslation(EnsureTable(tr, dialect), dialect,
                                           dialect_dict[i].canonical, source),
                          dialect_dict[i].canonical)

\* get_canonical falling off the loop with None instead of raising.
get_canonical_miss_none(dict, tr, source, dialect) ==
    IF source = None THEN Returns(tr, None)
    ELSE IF dialect \notin DOMAIN dict THEN Raises(tr, "KeyError")
    ELSE LET dialect_dict == dict[dialect]
             i == FirstMatch(dialect_dict, source)
         IN  IF i = 0 THEN Returns(tr, None)
             ELSE Returns(StoreTranslation(EnsureTable(tr, dialect), dialect,
                                           dialect_dict[i].canonical, source),
                          dialect_dict[i].canonical)

get_canonical(dict, tr, source, dialect) ==
    IF source = None THEN Returns(tr, None)
    ELSE IF dialect \notin DOMAIN dict THEN Raises(tr, "KeyError")
    ELSE LET dialect_dict == dict[dialect]
             i == FirstMatch(dialect_dict, source)
         IN  IF i = 0 THEN Raises(tr, "NoTranslationError")
             ELSE Returns(StoreTranslation(EnsureTable(tr, dialect), dialect,
                                           dialect_dict[i].canonical, source),
                          dialect_dict[i].canonical)

\* The default taken from the end of the synonym list.
DefaultSource_last(dict, tr, canonical, dialect) ==
    LET sources == Sources(dict[dialect], canonical)
    IN  IF Len(sources) = 0 THEN Raises(tr, "IndexError")
        ELSE Returns(StoreTranslation(tr, dialect, canonical, sources[Len(sources)]),
                     sources[Len(sources)])

\* cls._dictionary[dialect][canonical][0], stored and returned
DefaultSource(dict, tr, canonical, dialect) ==
    LET sources == Sources(dict[dialect], canonical)
    IN  IF Len(sources) = 0 THEN Raises(tr, "IndexError")
        ELSE Returns(StoreTranslation(tr, dialect, canonical, sources[1]),
                     sources[1])

\* get_source going to the dictionary without looking at _translated.
get_source_no_memo(dict, tr, canonical, dialect) ==
    LET tr1 == EnsureTable(tr, dialect)
    IN  IF dialect \notin DOMAIN dict THEN Raises(tr1, "KeyError")
        ELSE IF canonical \in Keys(dict[dialect])
        THEN DefaultSource(dict, tr1, canonical, dialect)
        ELSE Raises(tr1, "NoTranslationError")

\* get_source recording None for a canonical term it does not find.
get_source_store_on_miss(dict, tr, canonical, dialect) ==
    LET tr1 == EnsureTable(tr, dialect)
    IN  IF canonical \in DOMAIN tr1[dialect]
        THEN Returns(tr1, tr1[dialect][canonical])
        ELSE IF dialect \notin DOMAIN dict THEN Raises(tr1, "KeyError")
        ELSE IF canonical \in Keys(dict[dialect])
        THEN DefaultSource(dict, tr1, canonical, dialect)
        ELSE Raises(StoreTranslation(tr1, dialect, canonical, None),
                    "NoTranslationError")

get_source(dict, tr, canonical, dialect) ==
    LET tr1 == EnsureTable(tr, dialect)
    IN  IF canonical \in DOMAIN tr1[dialect]
        THEN Returns(tr1, tr1[dialect][canonical])
        ELSE IF dialect \notin DOMAIN dict THEN Raises(tr1, "KeyError")
        ELSE IF canonical \in Keys(dict[dialect])
        THEN DefaultSource(dict, tr1, canonical, dialect)
        ELSE Raises(tr1, "NoTranslationError")

\* The state load_from_file leaves and how it ends.
LoadEnds(st, dict, tr, e) ==
    [system_type |-> st, dictionary |-> dict, translated |-> tr,
     kind |-> e, val |-> None]

\* load_from_file without the reset of _translated.
load_from_file_keep_translated(dict, tr, short_name, dictionary_filepath) ==
    IF ~FileExists(dictionary_filepath)
    THEN LoadEnds(short_name, dict, tr, "FileNotFoundError")
    ELSE IF ~FileParses(dictionary_filepath)
    THEN LoadEnds(short_name, dict, tr, "TomlDecodeError")
    ELSE IF short_name \notin DOMAIN AllDictionaries
    THEN LoadEnds(short_name, dict, tr, "KeyError")
    ELSE LoadEnds(short_name, AllDictionaries[short_name], tr, "return")

load_from_file(dict, tr, short_name, dictionary_filepath) ==
    IF ~FileExists(dictionary_filepath)
    THEN LoadEnds(short_name, dict, tr, "FileNotFoundError")
    ELSE IF ~FileParses(dictionary_filepath)
    THEN LoadEnds(short_name, dict, EmptyDict, "TomlDecodeError")
    ELSE IF short_name \notin DOMAIN AllDictionaries
    THEN LoadEnds(short_name, dict, EmptyDict, "KeyError")
    ELSE LoadEnds(short_name, AllDictionaries[short_name], EmptyDict, "return")

-----------------------------------------------------------------------------
(* The registry driven by one caller.                                      *)

Init ==
    /\ system_type = None
    /\ dictionary = EmptyDict
    /\ translated = EmptyDict
    /\ call = [op |-> "none"]
    /\ outcome = [kind |-> "none", val |-> None]
    /\ fwd = EmptyDict
    /\ loads = 0
    /\ loaded = 0
    /\ pc = [th \in Threads |-> "idle"]
    /\ frame = [th \in Threads |-> IdleFrame]

Load(short_name, path) ==
    /\ loads < MaxLoads
    /\ LET r == load_from_file(dictionary, translated, short_name, path)
       IN  /\ system_type' = r.system_type
           /\ dictionary' = r.dictionary
           /\ translated' = r.translated
           /\ outcome' = [kind |-> r.kind, val |-> r.val]
           /\ fwd' = IF r.kind = "return" THEN EmptyDict ELSE fwd
           /\ loaded' = IF r.kind = "return" THEN loaded + 1 ELSE loaded
    /\ call' = [op |-> "load_from_file", system_type |-> short_name,
                dictionary_filepath |-> path]
    /\ loads' = loads + 1
    /\ UNCHANGED <<pc, frame>>

GetCanonical(source, dialect) ==
    /\ LET r == get_canonical(dictionary, translated, source, dialect)
       IN  /\ translated' = r.translated
           /\ outcome' = [kind |-> r.kind, val |-> r.val]
           /\ fwd' = IF r.kind = "return" /\ source # None
                     THEN SetItem(fwd, <<dialect, r.val>>, source)
                     ELSE fwd
    /\ call' = [op |-> "get_canonical", source |-> source, dialect |-> dialect]
    /\ UNCHANGED <<system_type, dictionary, loads, loaded, pc, frame>>

\* get_source taking the default with sources.pop(0), which shortens the
\* dictionary's own list.
GetSource_pop_default(canonical, dialect) ==
    /\ LET r == get_source(dictionary, translated, canonical, dialect)
       IN  /\ translated' = r.translated
           /\ outcome' = [kind |-> r.kind, val |-> r.val]
    /\ dictionary' =
         IF /\ dialect \in DOMAIN dictionary
            /\ canonical \in Keys(dictionary[dialect])
            /\ ~(dialect \in DOMAIN translated
                 /\ canonical \in DOMAIN translated[dialect])
         THEN [dictionary EXCEPT ![dialect] =
                 [i \in DOMAIN @ |->
                     IF @[i].canonical = canonical /\ Len(@[i].sources) > 0
                     THEN Item(canonical, Tail(@[i].sources))
                     ELSE @[i]]]
         ELSE dictionary
    /\ call' = [op |-> "get_source", canonical |-> canonical, dialect |-> dialect]
    /\ UNCHANGED <<system_type, fwd, loads, loaded, pc, frame>>

GetSource(canonical, dialect) ==
    /\ LET r == get_source(dictionary, translated, canonical, dialect)
       IN  /\ translated' = r.translated
           /\ outcome' = [kind |-> r.kind, val |-> r.val]
    /\ call' = [op |-> "get_source", canonical |-> canonical, dialect |-> dialect]
    /\ UNCHANGED <<system_type, dictionary, fwd, loads, loaded, pc, frame>>

Next ==
    \/ \E s \in SystemTypes, p \in FilePaths : Load(s, p)
    \/ \E t \in SourceTerms \cup {None}, d \in Dialects : GetCanonical(t, d)
    \/ \E c \in Canonicals, d \in Dialects : GetSource(c, d)

Spec == Init /\ [][Next]_vars

-----------------------------------------------------------------------------
(* The registry called by several threads. The class holds no lock, so a   *)
(* thread may be switched out between any two lines; each action below is  *)
(* one line (or a run of lines that touch locals only) of one method.      *)

\* Thread th moves to line l of its method.
Goto(th, l) == pc' = [pc EXCEPT ![th] = l]

\* Thread th leaves its method, by return or by an exception.
Leave(th) ==
    /\ pc' = [pc EXCEPT ![th] = "idle"]
    /\ frame' = [frame EXCEPT ![th] = IdleFrame]

CallLoad(th, short_name, path) ==
    /\ pc[th] = "idle"
    /\ loads < MaxThreadedLoads
    /\ Goto(th, "load68")
    /\ frame' = [frame EXCEPT ![th] =
                   [op |-> "load_from_file", system_type |-> short_name,
                    dictionary_filepath |-> path]]
    /\ loads' = loads + 1
    /\ UNCHANGED <<system_type, dictionary, translated, call, outcome, fwd, loaded>>

\* cls.system_type = system_type
Load68(th) ==
    /\ pc[th] = "load68"
    /\ system_type' = frame[th].system_type
    /\ Goto(th, "load69")
    /\ UNCHANGED <<dictionary, translated, call, outcome, fwd, loads, loaded, frame>>

\* if not exists(dictionary_filepath): ... raise FileNotFoundError
Load69(th) ==
    /\ pc[th] = "load69"
    /\ IF FileExists(frame[th].dictionary_filepath)
       THEN Goto(th, "load76") /\ UNCHANGED frame
       ELSE Leave(th)
    /\ UNCHANGED <<system_type, dictionary, translated, call, outcome, fwd,
                   loads, loaded>>

\* cls._translated = {}
Load76(th) ==
    /\ pc[th] = "load76"
    /\ translated' = EmptyDict
    /\ Goto(th, "load77")
    /\ UNCHANGED <<system_type, dictionary, call, outcome, fwd, loads, loaded, frame>>

\* all_dictionaries = toml.load(dictionary_filepath)
Load77(th) ==
    /\ pc[th] = "load77"
    /\ IF FileParses(frame[th].dictionary_filepath)
       THEN Goto(th, "load78") /\ UNCHANGED frame
       ELSE Leave(th)
    /\ UNCHANGED <<system_type, dictionary, translated, call, outcome, fwd,
                   loads, loaded>>

\* cls._dictionary = all_dictionaries[system_type.short_name]
Load78(th) ==
    /\ pc[th] = "load78"
    /\ IF frame[th].system_type \in DOMAIN AllDictionaries
       THEN /\ dictionary' = AllDictionaries[frame[th].system_type]
            /\ fwd' = EmptyDict
            /\ loaded' = loaded + 1
       ELSE UNCHANGED <<dictionary, fwd, loaded>>
    /\ Leave(th)
    /\ UNCHANGED <<system_type, translated, call, outcome, loads>>

CallGetCanonical(th, source, dialect) ==
    /\ pc[th] = "idle"
    /\ Goto(th, "canonical101")
    /\ frame' = [frame EXCEPT ![th] =
                   [op |-> "get_canonical", source |-> source, dialect |-> dialect]]
    /\ UNCHANGED <<system_type, dictionary, translated, call, outcome, fwd,
                   loads, loaded>>

\* if source is None: return None
Canonical101(th) ==
    /\ pc[th] = "canonical101"
    /\ IF frame[th].source = None
       THEN Leave(th)
       ELSE Goto(th, "canonical104") /\ UNCHANGED frame
    /\ UNCHANGED <<system_type, dictionary, translated, call, outcome, fwd,
                   loads, loaded>>

\* dialect_dict = cls._dictionary[dialect.dialect], and the loop over this
\* local up to the item that lists source
Canonical104(th) ==
    /\ pc[th] = "canonical104"
    /\ IF frame[th].dialect \notin DOMAIN dictionary
       THEN Leave(th)
       ELSE LET dialect_dict == dictionary[frame[th].dialect]
                i == FirstMatch(dialect_dict, frame[th].source)
            IN  IF i = 0
                THEN Leave(th)
                ELSE /\ Goto(th, "canonical107")
                     /\ frame' = [frame EXCEPT ![th] =
                                    [op |-> "get_canonical",
                                     source |-> frame[th].source,
                                     dialect |-> frame[th].dialect,
                                     canonical |-> dialect_dict[i].canonical]]
    /\ UNCHANGED <<system_type, dictionary, translated, call, outcome, fwd,
                   loads, loaded>>

\* if dialect.dialect not in cls._translated:
Canonical107(th) ==
    /\ pc[th] = "canonical107"
    /\ IF frame[th].dialect \notin DOMAIN translated
       THEN Goto(th, "canonical108")
       ELSE Goto(th, "canonical109")
    /\ UNCHANGED <<system_type, dictionary, translated, call, outcome, fwd,
                   loads, loaded, frame>>

\* cls._translated[dialect.dialect] = {}
Canonical108(th) ==
    /\ pc[th] = "canonical108"
    /\ translated' = SetItem(translated, frame[th].dialect, EmptyDict)
    /\ Goto(th, "canonical109")
    /\ UNCHANGED <<system_type, dictionary, call, outcome, fwd, loads, loaded, frame>>

\* cls._translated[dialect.dialect][canonical] = source; return canonical
\* (KeyError when a load has replaced _translated since line 107)
Canonical109(th) ==
    /\ pc[th] = "canonical109"
    /\ IF frame[th].dialect \in DOMAIN translated
       THEN /\ translated' = StoreTranslation(translated, frame[th].dialect,
                                              frame[th].canonical, frame[th].source)
            /\ fwd' = SetItem(fwd, <<frame[th].dialect, frame[th].canonical>>,
                              frame[th].source)
       ELSE UNCHANGED <<translated, fwd>>
    /\ Leave(th)
    /\ UNCHANGED <<system_type, dictionary, call, outcome, loads, loaded>>

CallGetSource(th, canonical, dialect) ==
    /\ pc[th] = "idle"
    /\ Goto(th, "source133")
    /\ frame' = [frame EXCEPT ![th] =
                   [op |-> "get_source", canonical |-> canonical, dialect |-> dialect]]
    /\ UNCHANGED <<system_type, dictionary, translated, call, outcome, fwd,
                   loads, loaded>>

\* if dialect.dialect not in cls._translated:
Source133(th) ==
    /\ pc[th] = "source133"
    /\ IF frame[th].dialect \notin DOMAIN translated
       THEN Goto(th, "source134")
       ELSE Goto(th, "source135")
    /\ UNCHANGED <<system_type, dictionary, translated, call, outcome, fwd,
                   loads, loaded, frame>>

\* cls._translated[dialect.dialect] = {}
Source134(th) ==
    /\ pc[th] = "source134"
    /\ translated' = SetItem(translated, frame[th].dialect, EmptyDict)
    /\ Goto(th, "source135")
    /\ UNCHANGED <<system_type, dictionary, call, outcome, fwd, loads, loaded, frame>>

\* if canonical in cls._translated[dialect.dialect]:
Source135(th) ==
    /\ pc[th] = "source135"
    /\ IF frame[th].dialect \notin DOMAIN translated
       THEN Leave(th)
       ELSE /\ IF frame[th].canonical \in DOMAIN translated[frame[th].dialect]
               THEN Goto(th, "source136")
               ELSE Goto(th, "source138")
            /\ UNCHANGED frame
    /\ UNCHANGED <<system_type, dictionary, translated, call, outcome, fwd,
                   loads, loaded>>

\* return cls._translated[dialect.dialect][canonical]
Source136(th) ==
    /\ pc[th] = "source136"
    /\ Leave(th)
    /\ UNCHANGED <<system_type, dictionary, translated, call, outcome, fwd,
                   loads, loaded>>

\* if canonical in cls._dictionary[dialect.dialect]: ... else raise
Source138(th) ==
    /\ pc[th] = "source138"
    /\ IF /\ frame[th].dialect \in DOMAIN dictionary
          /\ frame[th].canonical \in Keys(dictionary[frame[th].dialect])
       THEN Goto(th, "source139") /\ UNCHANGED frame
       ELSE Leave(th)
    /\ UNCHANGED <<system_type, dictionary, translated, call, outcome, fwd,
                   loads, loaded>>

\* first_source = cls._dictionary[dialect.dialect][canonical][0]
Source139(th) ==
    /\ pc[th] = "source139"
    /\ IF /\ frame[th].dialect \in DOMAIN dictionary
          /\ frame[th].canonical \in Keys(dictionary[frame[th].dialect])
          /\ Len(Sources(dictionary[frame[th].dialect], frame[th].canonical)) > 0
       THEN /\ Goto(th, "source140")
            /\ frame' = [frame EXCEPT ![th] =
                           [op |-> "get_source",
                            canonical |-> frame[th].canonical,
                            dialect |-> frame[th].dialect,
                            first_source |->
                               Sources(dictionary[frame[th].dialect],
                                       frame[th].canonical)[1]]]
       ELSE Leave(th)
    /\ UNCHANGED <<system_type, dictionary, translated, call, outcome, fwd,
                   loads, loaded>>

\* cls._translated[dialect.dialect][canonical] = first_source
Source140(th) ==
    /\ pc[th] = "source140"
    /\ IF frame[th].dialect \in DOMAIN translated
       THEN /\ translated' = StoreTranslation(translated, frame[th].dialect,
                                              frame[th].canonical,
                                              frame[th].first_source)
            /\ Goto(th, "source141")
            /\ UNCHANGED frame
       ELSE UNCHANGED translated /\ Leave(th)
    /\ UNCHANGED <<system_type, dictionary, call, outcome, fwd, loads, loaded>>

\* return cls._translated[dialect.dialect][canonical]
Source141(th) ==
    /\ pc[th] = "source141"
    /\ Leave(th)
    /\ UNCHANGED <<system_type, dictionary, translated, call, outcome, fwd,
                   loads, loaded>>

\* A line of load_from_file run by thread th.
LoadStep(th) ==
    \/ Load68(th)
    \/ Load69(th)
    \/ Load76(th)
    \/ Load77(th)
    \/ Load78(th)

\* A line of get_canonical or get_source run by thread th.
LookupStep(th) ==
    \/ Canonical101(th)
    \/ Canonical104(th)
    \/ Canonical107(th)
    \/ Canonical108(th)
    \/ Canonical109(th)
    \/ Source133(th)
    \/ Source134(th)
    \/ Source135(th)
    \/ Source136(th)
    \/ Source138(th)
    \/ Source139(th)
    \/ Source140(th)
    \/ Source141(th)

ThreadedNext ==
    \E th \in Threads :
        \/ \E s \in SystemTypes, p \in FilePaths : CallLoad(th, s, p)
        \/ \E t \in SourceTerms \cup {None}, d \in Dialects : CallGetCanonical(th, t, d)
        \/ \E c \in Canonicals, d \in Dialects : CallGetSource(th, c, d)
        \/ LoadStep(th)
        \/ LookupStep(th)

ThreadedSpec == Init /\ [][ThreadedNext]_vars

-----------------------------------------------------------------------------
(* Vocabulary of the properties.                                           *)

Absent == "absent"

\* The memo entry of (dialect, canonical), Absent when there is none.
Entry(tr, dialect, canonical) ==
    IF dialect \in DOMAIN tr /\ canonical \in DOMAIN tr[dialect]
    THEN tr[dialect][canonical]
    ELSE Absent

\* canonical is a key of dictionary[dialect]
IsCanonical(dialect, canonical) ==
    /\ dialect \in DOMAIN dictionary
    /\ canonical \in Keys(dictionary[dialect])

\* source is in the synonym list of canonical under dialect
ListedUnder(dialect, canonical, source) ==
    /\ IsCanonical(dialect, canonical)
    /\ Contains(Sources(dictionary[dialect], canonical), source)

\* canonical has a first synonym under dialect
HasDefault(dialect, canonical) ==
    /\ IsCanonical(dialect, canonical)
    /\ Len(Sources(dictionary[dialect], canonical)) > 0

Default(dialect, canonical) == Sources(dictionary[dialect], canonical)[1]

\* The call made last was get_canonical(source, dialect) and returned canonical.
Resolved(source, dialect, canonical) ==
    /\ call.op = "get_canonical"
    /\ call.source = source
    /\ call.dialect = dialect
    /\ outcome = [kind |-> "return", val |-> canonical]

ReturnOf(v) == [kind |-> "return", val |-> v]

-----------------------------------------------------------------------------
\* C1 (as stated): for every canonical term C of D whose synonym list holds t,
\* get_canonical(t, D) followed by get_source(C, D) returns t.
C1_Original ==
    [][\A t \in SourceTerms, d \in Dialects, c \in Canonicals :
          ( /\ \E c0 \in Canonicals : Resolved(t, d, c0)
            /\ ListedUnder(d, c, t)
            /\ GetSource(c, d) )
          => outcome' = ReturnOf(t)]_vars

\* C1 (amended): get_canonical(t, D) returning C (the first canonical term of D
\* that lists t) and then get_source(C, D) returns exactly t, whether or not
\* t is the first synonym of C.
C1_MemoStickiness ==
    [][\A t \in SourceTerms, d \in Dialects, c \in Canonicals :
          (Resolved(t, d, c) /\ GetSource(c, d))
          => outcome' = ReturnOf(t)]_vars

\* A get_source that returned the source term of the latest get_canonical,
\* which is not the first synonym.
C1_Witness ==
    /\ call.op = "get_source"
    /\ outcome.kind = "return"
    /\ <<call.dialect, call.canonical>> \in DOMAIN fwd
    /\ outcome.val = fwd[<<call.dialect, call.canonical>>]
    /\ outcome.val # Default(call.dialect, call.canonical)

IsFirstListing(dialect_dict, canonical, source) ==
    \E i \in DOMAIN dialect_dict :
        /\ dialect_dict[i].canonical = canonical
        /\ Contains(dialect_dict[i].sources, source)
        /\ \A j \in 1..(i - 1) : ~Contains(dialect_dict[j].sources, source)

\* C3: a get_canonical(t, D) that returns, for t not None, returns the first
\* canonical term in the order of dictionary[D] whose synonym list holds t,
\* and writes the memo entry of that canonical term and of no other.
C3_FirstMatchWins ==
    [][\A t \in SourceTerms, d \in Dialects :
          (GetCanonical(t, d) /\ outcome'.kind = "return")
          => /\ IsFirstListing(dictionary[d], outcome'.val, t)
             /\ Entry(translated', d, outcome'.val) = t
             /\ \A d2 \in Dialects, c2 \in Canonicals :
                    <<d2, c2>> # <<d, outcome'.val>>
                    => Entry(translated', d2, c2) = Entry(translated, d2, c2)]_vars

\* A get_canonical of a term listed under two canonical terms returned the
\* earlier one and left the later one's memo entry alone.
C3_Witness ==
    /\ call.op = "get_canonical"
    /\ outcome.kind = "return"
    /\ call.source # None
    /\ \E c2 \in Canonicals :
          /\ c2 # outcome.val
          /\ ListedUnder(call.dialect, c2, call.source)
          /\ ~IsFirstListing(dictionary[call.dialect], c2, call.source)
          /\ Entry(translated, call.dialect, c2) # call.source
    /\ Entry(translated, call.dialect, outcome.val) = call.source

C5_LoadAtomic ==
    [][\A s \in SystemTypes, p \in FilePaths :
          Load(s, p)
          => \/ /\ outcome'.kind = "return"
                /\ system_type' = s
                /\ s \in DOMAIN AllDictionaries
                /\ dictionary' = AllDictionaries[s]
                /\ translated' = EmptyDict
             \/ /\ outcome'.kind # "return"
                /\ UNCHANGED <<system_type, dictionary, translated>>]_vars

\* C6: get_canonical(None, D) returns None and changes neither the memo nor
\* the dictionary nor system_type, for every D and in every state.
C6_PassThrough ==
    [][\A d \in Dialects :
          GetCanonical(None, d)
          => /\ outcome' = ReturnOf(None)
             /\ UNCHANGED <<translated, dictionary, system_type>>]_vars

\* get_canonical(None, D) returned None for a dialect the dictionary lacks,
\* with translations in the memo.
C6_Witness ==
    /\ call.op = "get_canonical"
    /\ call.source = None
    /\ outcome = ReturnOf(None)
    /\ loaded >= 1
    /\ call.dialect \notin DOMAIN dictionary
    /\ \E d \in DOMAIN translated : DOMAIN translated[d] # {}

C8_UnknownDialectForward ==
    [][\A t \in SourceTerms, d \in Dialects :
          ( /\ loaded >= 1
            /\ d \notin DOMAIN dictionary
            /\ GetCanonical(t, d) )
          => outcome'.kind = "NoTranslationError"]_vars

\* C9: get_source(C, D), when (D, C) has no memo entry and C is no canonical
\* term of dictionary[D] (D in the dictionary or not), ends in
\* NoTranslationError.
C9_ReverseMiss ==
    [][\A c \in Canonicals, d \in Dialects :
          ( /\ Entry(translated, d, c) = Absent
            /\ ~IsCanonical(d, c)
            /\ GetSource(c, d) )
          => outcome'.kind = "NoTranslationError"]_vars

\* C10: every memo entry (D, C) holds the source term of the latest
\* get_canonical that returned C under D since the last load, or the first
\* synonym of C in dictionary[D] when there has been none.
C10_MemoContent ==
    \A d \in DOMAIN translated :
        \A c \in DOMAIN translated[d] :
            translated[d][c] =
                IF <<d, c>> \in DOMAIN fwd THEN fwd[<<d, c>>] ELSE Default(d, c)

\* A lookup made with dialect d, whatever its other argument.
LookupUnder(d) ==
    \/ \E t \in SourceTerms \cup {None} : GetCanonical(t, d)
    \/ \E c \in Canonicals : GetSource(c, d)

\* The memo table of dialect d, Absent when _translated has no such key.
TableOf(tr, d) == IF d \in DOMAIN tr THEN tr[d] ELSE Absent

\* What the caller of get_source(c, d) sees with memo tr.
SourceSeen(tr, c, d) ==
    LET r == get_source(dictionary, tr, c, d) IN [kind |-> r.kind, val |-> r.val]

\* C11: a get_canonical or get_source made with dialect D1 leaves the memo
\* table of every other dialect D2 as it was, and with it the result of
\* get_source(C, D2).
C11_DialectIsolation ==
    [][\A d1 \in Dialects :
          LookupUnder(d1)
          => \A d2 \in Dialects \ {d1} :
                /\ TableOf(translated', d2) = TableOf(translated, d2)
                /\ \A c \in Canonicals :
                      SourceSeen(translated', c, d2) = SourceSeen(translated, c, d2)]_vars

\* A lookup wrote an entry under one dialect while another dialect held a
\* different entry for the same canonical term.
C11_Witness ==
    /\ call.op \in {"get_canonical", "get_source"}
    /\ outcome.kind = "return"
    /\ \E d2 \in Dialects \ {call.dialect}, c \in Canonicals :
          /\ Entry(translated, call.dialect, c) # Absent
          /\ Entry(translated, d2, c) # Absent
          /\ Entry(translated, d2, c) # Entry(translated, call.dialect, c)

\* Any get_canonical or get_source call.
Lookup == \E d \in Dialects : LookupUnder(d)

\* Any load_from_file call.
AnyLoad == \E s \in SystemTypes, p \in FilePaths : Load(s, p)

\* C12: no get_canonical or get_source makes a present memo entry absent
\* (it may change its value); a step after which an entry is gone is a load.
C12_EntriesStay ==
    [][\A d \in Dialects, c \in Canonicals :
          Entry(translated, d, c) # Absent
          => /\ Lookup => Entry(translated', d, c) # Absent
             /\ Entry(translated', d, c) = Absent => AnyLoad]_vars

\* A get_canonical overwrote the entry of its canonical term with a synonym
\* that is not the default, a second entry of the same dialect still there.
C12_Witness ==
    /\ call.op = "get_canonical"
    /\ outcome.kind = "return"
    /\ call.source # None
    /\ Entry(translated, call.dialect, outcome.val) = call.source
    /\ call.source # Default(call.dialect, outcome.val)
    /\ \E c2 \in Canonicals \ {outcome.val} :
          Entry(translated, call.dialect, c2) # Absent

\* C13: no get_canonical or get_source, returning or raising, changes the
\* dictionary or system_type; a step that changes either is a load.
C13_LookupsKeepDictionary ==
    [][/\ Lookup => UNCHANGED <<dictionary, system_type>>
       /\ (dictionary' # dictionary \/ system_type' # system_type) => AnyLoad]_vars

\* A lookup raised with translations in the memo and the dictionary still
\* the one the load installed.
C13_Witness ==
    /\ call.op \in {"get_canonical", "get_source"}
    /\ outcome.kind \notin {"return", "none"}
    /\ system_type \in DOMAIN AllDictionaries
    /\ dictionary = AllDictionaries[system_type]
    /\ \E d \in DOMAIN translated : DOMAIN translated[d] # {}

\* C16: get_source(C, D), for C a key of dictionary[D] with an empty synonym
\* list and no memo entry, ends in NoTranslationError and adds no memo entry
\* for (D, C).
C16_EmptySynonymList ==
    [][\A c \in Canonicals, d \in Dialects :
          ( /\ IsCanonical(d, c)
            /\ Len(Sources(dictionary[d], c)) = 0
            /\ Entry(translated, d, c) = Absent
            /\ GetSource(c, d) )
          => /\ outcome'.kind = "NoTranslationError"
             /\ Entry(translated', d, c) = Absent]_vars

\* s is a synonym of canonical term c of dialect d in the dictionary now loaded
Backed(d, c, s) ==
    /\ d \in DOMAIN dictionary
    /\ c \in Keys(dictionary[d])
    /\ Contains(Sources(dictionary[d], c), s)

\* C17: every memo entry (D, C) -> s has D a dialect of the current
\* dictionary, C a canonical term of dictionary[D] and s in dictionary[D][C].
C17_MemoBacked ==
    \A d \in DOMAIN translated :
        \A c \in DOMAIN translated[d] : Backed(d, c, translated[d][c])

\* After a load that failed and a second dictionary loaded, the memo holds a
\* translation that is not the default of its canonical term.
C17_Witness ==
    /\ loaded >= 2
    /\ loads > loaded
    /\ \E d \in DOMAIN translated :
          \E c \in DOMAIN translated[d] :
              /\ Backed(d, c, translated[d][c])
              /\ translated[d][c] # Default(d, c)

\* The (dialect, canonical) -> source entries of memo tr.
Entries(tr) == [x \in Dialects \X Canonicals |-> Entry(tr, x[1], x[2])]

\* C18: a get_canonical or get_source that ends in an error leaves every
\* (dialect, canonical) -> source entry as it was, none added and none
\* changed, and the next lookup, whichever it is, gives the same result and
\* the same entries as it would have without the failed call. (A failed call
\* that leaves _translated itself unchanged satisfies this at once.)
C18_FailedLookupWritesNothing ==
    [][(outcome'.kind # "return" /\ translated' # translated /\ Lookup)
       => /\ Entries(translated') = Entries(translated)
          /\ \A d \in Dialects :
                /\ \A c \in Canonicals :
                      LET r1 == get_source(dictionary, translated', c, d)
                          r0 == get_source(dictionary, translated, c, d)
                      IN  /\ r1.kind = r0.kind
                          /\ r1.val = r0.val
                          /\ Entries(r1.translated) = Entries(r0.translated)
                /\ \A t \in SourceTerms :
                      LET r1 == get_canonical(dictionary, translated', t, d)
                          r0 == get_canonical(dictionary, translated, t, d)
                      IN  /\ r1.kind = r0.kind
                          /\ r1.val = r0.val
                          /\ Entries(r1.translated) = Entries(r0.translated)]_vars

\* A get_source raised for a canonical term the dialect does not have; the
\* memo holds translations of that dialect and none for that term.
C18_Witness ==
    /\ call.op = "get_source"
    /\ outcome.kind = "NoTranslationError"
    /\ Entry(translated, call.dialect, call.canonical) = Absent
    /\ call.dialect \in DOMAIN translated
    /\ DOMAIN translated[call.dialect] # {}

\* No source term is listed under two canonical terms of dialect d.
Unambiguous(d) ==
    \A c1 \in Keys(dictionary[d]), c2 \in Keys(dictionary[d]) :
        c1 # c2 => \A t \in SourceTerms :
                      ~(ListedUnder(d, c1, t) /\ ListedUnder(d, c2, t))

\* get_source(c, d), get_canonical of its result under d, get_source(c, d)
\* again: the three outcomes.
RoundTrip(c, d) ==
    LET r1 == get_source(dictionary, translated, c, d)
        r2 == get_canonical(dictionary, r1.translated, r1.val, d)
        r3 == get_source(dictionary, r2.translated, c, d)
    IN  <<[kind |-> r1.kind, val |-> r1.val],
          [kind |-> r2.kind, val |-> r2.val],
          [kind |-> r3.kind, val |-> r3.val]>>

LoadHalfDone(th) == pc[th] \in {"load77", "load78"}

\* C14: with load_from_file and lookups called by several threads, no line of
\* get_canonical or get_source runs while another thread is between load's
\* emptying of the memo and its replacement of the dictionary.
C14_LoadExcludesLookups ==
    [][\A th \in Threads :
          LookupStep(th) => \A th2 \in Threads \ {th} : ~LoadHalfDone(th2)]_vars

\* C15: with lookups of several threads interleaved, no line of get_canonical
\* or get_source makes absent a memo entry that holds what a completed
\* get_canonical recorded for it.
C15_NoLostUpdate ==
    [][\A th \in Threads :
          LookupStep(th)
          => \A d \in Dialects, c \in Canonicals :
                ( /\ <<d, c>> \in DOMAIN fwd
                  /\ Entry(translated, d, c) = fwd[<<d, c>>] )
                => Entry(translated', d, c) # Absent]_vars

====
